---- MODULE Spec2Model ----
(***************************************************************************)
(* A model of pass-master (package passman): the SQLite entry store of     *)
(* db.py with the statements of config.py, the click commands of cli.py,   *)
(* and the key derivation / key-check-value functions of security.py.      *)
(*                                                                         *)
(* Four specifications share the variables:                                *)
(*   Spec       one action per CLI command (cli.py), each the whole        *)
(*              invocation: the group callback cli() and then the command  *)
(*   SpecStore  one action per function of db.py, called directly         *)
(*   SpecKcv    derive_key / encode_kcv / decode_kcv applied to inputs     *)
(*   SpecSetup  the steps of initialise_security                           *)
(***************************************************************************)
EXTENDS Integers, Sequences, FiniteSets, TLC

VARIABLES
    entries,    \* the rows of table "entries" (config.py SQL_CREATE_TABLE)
    now,        \* the database clock: CURRENT_TIMESTAMP / datetime()
    ret,        \* how the last call of a db.py function ended, and with what
    inv,        \* the last CLI invocation: what cli() and the command did
    kcvio,      \* inputs, token and outcome of the key-check-value functions
    config,     \* the persisted vault configuration (salt, key_check_value)
    setup       \* the position and locals of initialise_security

vars == <<entries, now, ret, inv, kcvio, config, setup>>

---------------------------------------------------------------------------
(* Bounds of the model *)

MaxTime == 1        \* the clock runs 0..MaxTime
MaxTermLen == 1     \* length of a search term

---------------------------------------------------------------------------
(* Python values.  A str and a bytes object never compare equal, so every  *)
(* value that the code compares carries its type.                          *)

Str(x) == [type |-> "str", val |-> x]
Bytes(x) == [type |-> "bytes", val |-> x]
Bool(b) == [type |-> "bool", val |-> b]
None == [type |-> "NoneType", val |-> "None"]

\* Python's ==: objects of different types are unequal
PyEq(a, b) == a.type = b.type /\ a.val = b.val

\* How a call ends: it returns a value, raises an exception, or leaves the
\* process through sys.exit.
Return(v) == [kind |-> "return", exc |-> "none", value |-> v]
Raise(e) == [kind |-> "raise", exc |-> e, value |-> None]
Exit(code) == [kind |-> "exit", exc |-> "SystemExit", value |-> Str(code)]

---------------------------------------------------------------------------
(* Service names and search terms are sequences of characters.             *)

\* The characters of a search term: a letter in both cases and the two
\* characters LIKE gives a meaning to
Chars == {"a", "A", "_", "%"}

\* ASCII lower-casing, as SQLite's LIKE folds case
Lower(c) == IF c = "A" THEN "a" ELSE c

\* The table holds at most one row of each (UNIQUE), so the names bound it
ServiceNames == { <<"a", "b">>, <<"b", "b">> }

RECURSIVE SeqsUpTo(_)
SeqsUpTo(n) ==
    IF n = 0 THEN { <<>> }
    ELSE LET S == SeqsUpTo(n - 1)
         IN  S \cup { Append(s, c) : s \in { x \in S : Len(x) = n - 1 }, c \in Chars }

SearchTerms == SeqsUpTo(MaxTermLen)

\* What an add is called with, besides the service name.  The two inputs
\* differ in every field, so that an overwritten field shows.
AddInputs ==
    { [username |-> Str("alice"), password |-> Str("pw1"),
       url |-> Str("null"), note |-> Str("null")],
      [username |-> Str("bob"), password |-> Str("pw2"),
       url |-> Str("https://x"), note |-> Str("work")] }

NewPasswords == { Str("pw3") }

\* The state of the backing store during one call or invocation:
\*   ok            the directory, the file and the schema are usable
\*   sqlite_error  sqlite3 raises a sqlite3.Error (unable to open the file,
\*                 file is not a database, ...)
\*   os_error      Path.mkdir of get_db_path raises an OSError
Storages == {"ok", "sqlite_error", "os_error"}

---------------------------------------------------------------------------
(* config.py: the statements, as operations on the set of rows.  The       *)
(* rowid column id is left to SQLite and no statement selects or tests it. *)

\* SQL_CREATE_TABLE: UNIQUE(service_name), compared under BINARY collation
ViolatesUnique(tbl, service_name) ==
    \E e \in tbl : e.service_name = service_name

\* SQL_INSERT_ENTRY: created_at and updated_at take DEFAULT CURRENT_TIMESTAMP
SQL_INSERT_ENTRY(service_name, username, password, url, note, iv, t) ==
    [service_name |-> service_name, username |-> username,
     password |-> password, url |-> url, note |-> note,
     created_at |-> t, updated_at |-> t, iv |-> iv]

\* SQL_VIEW_ENTRY: seven columns WHERE service_name = ?
SQL_VIEW_ENTRY(tbl, service_name) ==
    { [service_name |-> e.service_name, username |-> e.username,
       password |-> e.password, url |-> e.url, note |-> e.note,
       created_at |-> e.created_at, updated_at |-> e.updated_at] :
      e \in { x \in tbl : x.service_name = service_name } }

\* The columns SQL_SEARCH selects
Summary(e) ==
    [service_name |-> e.service_name, url |-> e.url, note |-> e.note,
     created_at |-> e.created_at, updated_at |-> e.updated_at]

\* SQLite's LIKE with no ESCAPE clause: % matches any run of characters,
\* _ matches any one character, letters match without regard to case.
RECURSIVE Like(_, _)
Like(pat, s) ==
    IF pat = <<>> THEN s = <<>>
    ELSE IF Head(pat) = "%"
         THEN Like(Tail(pat), s) \/ (s # <<>> /\ Like(pat, Tail(s)))
         ELSE /\ s # <<>>
              /\ (Head(pat) = "_" \/ Lower(Head(pat)) = Lower(Head(s)))
              /\ Like(Tail(pat), Tail(s))

\* SQL_SEARCH: five columns WHERE service_name LIKE ?
SQL_SEARCH(tbl, pattern) ==
    { Summary(e) : e \in { x \in tbl : Like(pattern, x.service_name) } }

\* SQL_UPDATE_ENTRY with its WHERE clause lost: every row is updated
SQL_UPDATE_ENTRY_NoWhere(tbl, password, service_name, t) ==
    { [e EXCEPT !.password = password, !.updated_at = t] : e \in tbl }

\* SQL_UPDATE_ENTRY: SET password = ?, updated_at = datetime() WHERE service_name = ?
SQL_UPDATE_ENTRY(tbl, password, service_name, t) ==
    { IF e.service_name = service_name
      THEN [e EXCEPT !.password = password, !.updated_at = t]
      ELSE e : e \in tbl }

\* SQL_DELETE_ENTRY: DELETE WHERE service_name = ?
SQL_DELETE_ENTRY(tbl, service_name) ==
    { e \in tbl : e.service_name # service_name }

---------------------------------------------------------------------------
(* db.py: each function gives the table after the call and how it ended.   *)
(* get_db_connection runs first in each: an OSError of get_db_path is not  *)
(* a sqlite3.Error and passes the except clause; a sqlite3.Error is        *)
(* re-raised as Exception.  "with conn" commits on return and rolls back   *)
(* on an exception, so a failed statement leaves the table as it was.      *)

Result(tbl, out) == [tbl |-> tbl, out |-> out]

\* def initialise_db(): a sqlite3.Error is echoed and swallowed
initialise_db(st) ==
    IF st = "os_error" THEN Raise("OSError") ELSE Return(None)

\* add_entry against a table whose service_name is not UNIQUE
add_entry_NoUnique(tbl, st, service_name, username, password, url, note, iv, t) ==
    IF st = "os_error" THEN Result(tbl, Raise("OSError"))
    ELSE IF st = "sqlite_error" THEN Result(tbl, Raise("Exception"))
    ELSE Result(tbl \cup { SQL_INSERT_ENTRY(service_name, username,
                                            password, url, note, iv, t) },
                Return(None))

add_entry(tbl, st, service_name, username, password, url, note, iv, t) ==
    IF st = "os_error" THEN Result(tbl, Raise("OSError"))
    ELSE IF st = "sqlite_error" THEN Result(tbl, Raise("Exception"))
    ELSE IF ViolatesUnique(tbl, service_name)
         THEN Result(tbl, Raise("Exception"))
         ELSE Result(tbl \cup { SQL_INSERT_ENTRY(service_name, username,
                                                 password, url, note, iv, t) },
                     Return(None))

view_entry(tbl, st, service_name) ==
    IF st = "os_error" THEN Result(tbl, Raise("OSError"))
    ELSE IF st = "sqlite_error" THEN Result(tbl, Raise("Exception"))
    ELSE LET row == SQL_VIEW_ENTRY(tbl, service_name)
         IN  IF Cardinality(row) = 0
             THEN Result(tbl, Exit("0"))
             ELSE Result(tbl, Return(row))

search(tbl, st, search_term) ==
    IF st = "os_error" THEN Result(tbl, Raise("OSError"))
    ELSE IF st = "sqlite_error" THEN Result(tbl, Raise("Exception"))
    ELSE LET search_pattern == <<"%">> \o search_term \o <<"%">>
             rows == SQL_SEARCH(tbl, search_pattern)
         IN  IF Cardinality(rows) = 0
             THEN Result(tbl, Exit("0"))
             ELSE Result(tbl, Return(rows))

update_entry(tbl, st, service_name, password, t) ==
    IF st = "os_error" THEN Result(tbl, Raise("OSError"))
    ELSE IF st = "sqlite_error" THEN Result(tbl, Raise("Exception"))
    ELSE Result(SQL_UPDATE_ENTRY(tbl, password, service_name, t), Return(None))

delete_entry(tbl, st, service_name) ==
    IF st = "os_error" THEN Result(tbl, Raise("OSError"))
    ELSE IF st = "sqlite_error" THEN Result(tbl, Raise("Exception"))
    ELSE Result(SQL_DELETE_ENTRY(tbl, service_name), Return(None))

\* def list(): SQL_LIST is not among the statements of config.py; it is
\* taken to select the columns of SQL_SEARCH from every row.
SQL_LIST(tbl) == { Summary(e) : e \in tbl }

list(tbl, st) ==
    IF st = "os_error" THEN Result(tbl, Raise("OSError"))
    ELSE IF st = "sqlite_error" THEN Result(tbl, Raise("Exception"))
    ELSE LET rows == SQL_LIST(tbl)
         IN  IF Cardinality(rows) = 0
             THEN Result(tbl, Exit("0"))
             ELSE Result(tbl, Return(rows))

\* db.validate_service_name is called by cli.py and not defined in db.py.
\* From its use in add ("is True" means the entry exists) it is taken to
\* look the service name up as the other functions of db.py do.
validate_service_name(tbl, st, service_name) ==
    IF st = "os_error" THEN Result(tbl, Raise("OSError"))
    ELSE IF st = "sqlite_error" THEN Result(tbl, Raise("Exception"))
    ELSE Result(tbl, Return(\E e \in tbl : e.service_name = service_name))

---------------------------------------------------------------------------
(* SpecStore: the functions of db.py called directly.                      *)

\* ret: the function called, its service name or search term, the state of
\* the backing store it met, whether a row
\* of that service name existed when it was called, and how the call ended
Ret(fn, arg, st, existed, out) ==
    [fn |-> fn, arg |-> arg, storage |-> st, existed |-> existed, out |-> out]

NoRet == Ret("none", <<>>, "ok", FALSE, Return(None))
NoInv ==
    [cmd |-> "none", arg |-> <<>>, storage |-> "ok", startup |-> "none",
     executed |-> FALSE, calls |-> {}, told |-> "none", exit |-> "none",
     key |-> None]
NoKcv ==
    [stage |-> "none", password |-> "", salt |-> 0, candidate |-> "",
     kcv |-> None, tampered |-> FALSE, out |-> Return(None)]
NoSetup == [pc |-> "none", master_password |-> "", salt |-> 0, told |-> "none"]
NoConfig == [salt |-> None, key_check_value |-> None]

Exists(tbl, service_name) == \E e \in tbl : e.service_name = service_name

Tick ==
    /\ now < MaxTime
    /\ now' = now + 1
    /\ UNCHANGED <<entries, ret, inv, kcvio, config, setup>>

AddEntry ==
    \E service_name \in ServiceNames, in \in AddInputs, st \in Storages :
        /\ LET r == add_entry(entries, st, service_name, in.username,
                              in.password, in.url, in.note, 1, now)
           IN  /\ entries' = r.tbl
               /\ ret' = Ret("add_entry", service_name, st, Exists(entries, service_name), r.out)
        /\ UNCHANGED <<now, inv, kcvio, config, setup>>

ViewEntry ==
    \E service_name \in ServiceNames, st \in Storages :
        /\ LET r == view_entry(entries, st, service_name)
           IN  /\ entries' = r.tbl
               /\ ret' = Ret("view_entry", service_name, st, Exists(entries, service_name), r.out)
        /\ UNCHANGED <<now, inv, kcvio, config, setup>>

Search ==
    \E search_term \in SearchTerms, st \in Storages :
        /\ LET r == search(entries, st, search_term)
           IN  /\ entries' = r.tbl
               /\ ret' = Ret("search", search_term, st, FALSE, r.out)
        /\ UNCHANGED <<now, inv, kcvio, config, setup>>

List ==
    \E st \in Storages :
        /\ LET r == list(entries, st)
           IN  /\ entries' = r.tbl
               /\ ret' = Ret("list", <<>>, st, FALSE, r.out)
        /\ UNCHANGED <<now, inv, kcvio, config, setup>>

UpdateEntry ==
    \E service_name \in ServiceNames, password \in NewPasswords, st \in Storages :
        /\ LET r == update_entry(entries, st, service_name, password, now)
           IN  /\ entries' = r.tbl
               /\ ret' = Ret("update_entry", service_name, st, Exists(entries, service_name), r.out)
        /\ UNCHANGED <<now, inv, kcvio, config, setup>>

DeleteEntry ==
    \E service_name \in ServiceNames, st \in Storages :
        /\ LET r == delete_entry(entries, st, service_name)
           IN  /\ entries' = r.tbl
               /\ ret' = Ret("delete_entry", service_name, st, Exists(entries, service_name), r.out)
        /\ UNCHANGED <<now, inv, kcvio, config, setup>>

\* A new database file: the table is empty
Init ==
    /\ entries = {}
    /\ now = 0
    /\ ret = NoRet
    /\ inv = NoInv
    /\ kcvio = NoKcv
    /\ config = NoConfig
    /\ setup = NoSetup

NextStore ==
    \/ Tick
    \/ AddEntry
    \/ ViewEntry
    \/ Search
    \/ List
    \/ UpdateEntry
    \/ DeleteEntry

SpecStore == Init /\ [][NextStore]_vars

---------------------------------------------------------------------------
(* cli.py: the commands.  One invocation of the program runs the group     *)
(* callback cli() and then one command, against one state of the backing   *)
(* store.  What the user types at the prompts is an input of the command.  *)

\* What a command did: the table it left, the functions of db.py whose
\* statement ran against the table, the last thing the user was told, and
\* the exit status of the process.
H(tbl, calls, told, exit) ==
    [tbl |-> tbl, calls |-> calls, told |-> told, exit |-> exit]

\* def add(service_name, generate): a click.Abort() that is built and not
\* raised changes nothing, so the command returns and the process exits 0
add(tbl, st, service_name, generate, in, confirm, t) ==
    LET v == validate_service_name(tbl, st, service_name)
        password == IF generate THEN Str("generatedTestPassword123")
                    ELSE in.password
        r == add_entry(tbl, st, service_name, in.username, password,
                       in.url, in.note, 1, t)
    IN  IF v.out.kind = "raise" THEN H(tbl, {}, "traceback", "1")
        ELSE IF v.out.value = TRUE
             THEN H(tbl, {"validate_service_name"}, "exists", "0")
        ELSE IF ~confirm
             THEN H(tbl, {"validate_service_name"}, "cancelled", "0")
        ELSE IF r.out.kind = "return"
             THEN H(r.tbl, {"validate_service_name", "add_entry"}, "saved", "0")
             ELSE H(r.tbl, {"validate_service_name"}, "db_error", "0")

\* def view(service_name): sys.exit of db.view_entry is no Exception and
\* ends the process with status 0
view(tbl, st, service_name) ==
    LET r == view_entry(tbl, st, service_name)
    IN  IF r.out.kind = "return" THEN H(r.tbl, {"view_entry"}, "table", "0")
        ELSE IF r.out.kind = "exit" THEN H(r.tbl, {"view_entry"}, "not_found", "0")
        ELSE H(r.tbl, {}, "db_error", "0")

\* def search(search_term)
cli_search(tbl, st, search_term) ==
    LET r == search(tbl, st, search_term)
    IN  IF r.out.kind = "return" THEN H(r.tbl, {"search"}, "table", "0")
        ELSE IF r.out.kind = "exit" THEN H(r.tbl, {"search"}, "not_found", "0")
        ELSE H(r.tbl, {}, "db_error", "0")

\* def list_entries()
list_entries(tbl, st) ==
    LET r == list(tbl, st)
    IN  IF r.out.kind = "return" THEN H(r.tbl, {"list"}, "table", "0")
        ELSE IF r.out.kind = "exit" THEN H(r.tbl, {"list"}, "not_found", "0")
        ELSE H(r.tbl, {}, "db_error", "0")

\* def update(service_name, generate): the result of validate_service_name
\* is not looked at
update(tbl, st, service_name, generate, typed, confirm, t) ==
    LET v == validate_service_name(tbl, st, service_name)
        password == IF generate THEN Str("updatedPassword123") ELSE typed
        r == update_entry(tbl, st, service_name, password, t)
    IN  IF v.out.kind = "raise" THEN H(tbl, {}, "traceback", "1")
        ELSE IF ~confirm
             THEN H(tbl, {"validate_service_name"}, "cancelled", "0")
        ELSE IF r.out.kind = "return"
             THEN H(r.tbl, {"validate_service_name", "update_entry"}, "saved", "0")
             ELSE H(r.tbl, {"validate_service_name"}, "db_error", "0")

\* def delete(service_name)
delete(tbl, st, service_name, confirm) ==
    LET v == validate_service_name(tbl, st, service_name)
        r == delete_entry(tbl, st, service_name)
    IN  IF v.out.kind = "raise" THEN H(tbl, {}, "traceback", "1")
        ELSE IF ~confirm
             THEN H(tbl, {"validate_service_name"}, "cancelled", "0")
        ELSE IF r.out.kind = "return"
             THEN H(r.tbl, {"validate_service_name", "delete_entry"}, "deleted", "0")
             ELSE H(r.tbl, {"validate_service_name"}, "db_error", "0")

\* def cli(): the group callback, then the command h.  An exception out of
\* initialise_db is answered with click.Abort; nothing else is done before
\* the command: no password is asked for and no key is derived, so the
\* invocation holds no key.
cli(cmd, arg, st, tbl, h) ==
    IF initialise_db(st).kind = "raise"
    THEN [tbl |-> tbl,
          inv |-> [cmd |-> cmd, arg |-> arg, storage |-> st,
                   startup |-> "aborted", executed |-> FALSE, calls |-> {},
                   told |-> "db_error", exit |-> "1", key |-> None]]
    ELSE [tbl |-> h.tbl,
          inv |-> [cmd |-> cmd, arg |-> arg, storage |-> st,
                   startup |-> "ok", executed |-> TRUE, calls |-> h.calls,
                   told |-> h.told, exit |-> h.exit, key |-> None]]

CmdAdd ==
    \E service_name \in ServiceNames, generate \in BOOLEAN, in \in AddInputs,
       confirm \in BOOLEAN, st \in Storages :
        /\ LET r == cli("add", service_name, st, entries,
                        add(entries, st, service_name, generate, in, confirm, now))
           IN  entries' = r.tbl /\ inv' = r.inv
        /\ UNCHANGED <<now, ret, kcvio, config, setup>>

CmdView ==
    \E service_name \in ServiceNames, st \in Storages :
        /\ LET r == cli("view", service_name, st, entries,
                        view(entries, st, service_name))
           IN  entries' = r.tbl /\ inv' = r.inv
        /\ UNCHANGED <<now, ret, kcvio, config, setup>>

CmdSearch ==
    \E search_term \in SearchTerms, st \in Storages :
        /\ LET r == cli("search", search_term, st, entries,
                        cli_search(entries, st, search_term))
           IN  entries' = r.tbl /\ inv' = r.inv
        /\ UNCHANGED <<now, ret, kcvio, config, setup>>

CmdList ==
    \E st \in Storages :
        /\ LET r == cli("list", <<>>, st, entries, list_entries(entries, st))
           IN  entries' = r.tbl /\ inv' = r.inv
        /\ UNCHANGED <<now, ret, kcvio, config, setup>>

CmdUpdate ==
    \E service_name \in ServiceNames, generate \in BOOLEAN,
       typed \in NewPasswords, confirm \in BOOLEAN, st \in Storages :
        /\ LET r == cli("update", service_name, st, entries,
                        update(entries, st, service_name, generate, typed,
                               confirm, now))
           IN  entries' = r.tbl /\ inv' = r.inv
        /\ UNCHANGED <<now, ret, kcvio, config, setup>>

CmdDelete ==
    \E service_name \in ServiceNames, confirm \in BOOLEAN, st \in Storages :
        /\ LET r == cli("delete", service_name, st, entries,
                        delete(entries, st, service_name, confirm))
           IN  entries' = r.tbl /\ inv' = r.inv
        /\ UNCHANGED <<now, ret, kcvio, config, setup>>

Next ==
    \/ CmdView
    \/ CmdSearch
    \/ CmdList
    \/ CmdAdd
    \/ CmdUpdate
    \/ CmdDelete
    \/ Tick

Spec == Init /\ [][Next]_vars

---------------------------------------------------------------------------
(* security.py: key derivation and the key check value.                    *)

NumSalts == 4       \* salts os.urandom may give: 1..NumSalts
NumIVs == 2         \* initialisation vectors Fernet may draw: 1..NumIVs
MinPasswordLen == 8 \* set_new_master_password: len(p1) < 8 is refused

Salts == 1..NumSalts
IVs == 1..NumIVs

\* What is typed at the master password prompts
Passwords == {"Tr0ub4dor&3", "wrong-password", "correct horse", "short"}

\* def derive_key(salt, password): PBKDF2-HMAC-SHA256 then urlsafe base64.
\* The derivation is a function of the password and the salt, taken to be
\* free of collisions.
derive_key(salt, password) == [type |-> "key", val |-> <<password, salt>>]

\* Fernet(key).encrypt(data): a token that carries the data under the key
\* with a fresh initialisation vector, signed with the key
FernetEncrypt(key, data, iv) ==
    [type |-> "token", val |-> [key |-> key, data |-> data, iv |-> iv],
     intact |-> TRUE]

\* Fernet(key).decrypt(token): the data, when the token is intact and was
\* signed with the key; cryptography.fernet.InvalidToken otherwise
FernetDecrypt(key, token) ==
    IF token.type = "token" /\ token.intact /\ token.val.key = key
    THEN Return(token.val.data)
    ELSE Raise("InvalidToken")

\* def encode_kcv(key)
encode_kcv(key, iv) == FernetEncrypt(key, Bytes("CHECK_OK"), iv)

\* def decode_kcv(kcv, key): decrypt returns bytes, and the bytes are
\* compared with the str "CHECK_OK"; an exception of decrypt is not caught
decode_kcv(kcv, key) ==
    LET check == FernetDecrypt(key, kcv)
    IN  IF check.kind = "raise" THEN check
        ELSE IF PyEq(check.value, Str("CHECK_OK"))
             THEN Return(Bool(TRUE))
             ELSE Return(Bool(FALSE))

\* A stored key check value that was altered or overwritten
Corrupted(kcv) ==
    { [kcv EXCEPT !.intact = FALSE],
      [type |-> "bytes", val |-> "garbage", intact |-> FALSE] }

---------------------------------------------------------------------------
(* SpecKcv: the key check value functions applied to a password, a salt    *)
(* and a candidate password.                                               *)

InitKcv ==
    /\ entries = {}
    /\ now = 0
    /\ ret = NoRet
    /\ inv = NoInv
    /\ config = NoConfig
    /\ setup = NoSetup
    /\ \E password \in Passwords, salt \in Salts :
           kcvio = [NoKcv EXCEPT !.stage = "start", !.password = password,
                                 !.salt = salt]

\* kcv = encode_kcv(derive_key(password, salt))
EncodeKcv ==
    /\ kcvio.stage = "start"
    /\ \E iv \in IVs :
           kcvio' = [kcvio EXCEPT
                        !.stage = "stored",
                        !.kcv = encode_kcv(derive_key(kcvio.salt, kcvio.password), iv)]
    /\ UNCHANGED <<entries, now, ret, inv, config, setup>>

\* The stored value is corrupted before it is read back
TamperKcv ==
    /\ kcvio.stage = "stored"
    /\ ~kcvio.tampered
    /\ \E bad \in Corrupted(kcvio.kcv) :
           kcvio' = [kcvio EXCEPT !.kcv = bad, !.tampered = TRUE]
    /\ UNCHANGED <<entries, now, ret, inv, config, setup>>

\* decode_kcv(kcv, derive_key(candidate, salt))
DecodeKcv ==
    /\ kcvio.stage \in {"stored", "checked"}
    /\ \E candidate \in Passwords :
           kcvio' = [kcvio EXCEPT
                        !.stage = "checked",
                        !.candidate = candidate,
                        !.out = decode_kcv(kcvio.kcv,
                                           derive_key(kcvio.salt, candidate))]
    /\ UNCHANGED <<entries, now, ret, inv, config, setup>>

NextKcv ==
    \/ EncodeKcv
    \/ TamperKcv
    \/ DecodeKcv

SpecKcv == InitKcv /\ [][NextKcv]_vars

---------------------------------------------------------------------------
(* SpecSetup: initialise_security, statement by statement.  Each           *)
(* db.insert_config is a call of its own into the store, and the process   *)
(* can be stopped, or a call can fail, between any two statements.         *)

\* db.insert_config is called by security.py and not defined in db.py; it
\* is taken to store one value under one key and commit, as every function
\* of db.py commits what it wrote before it returns.
insert_config(cfg, key, value) ==
    IF key = "salt" THEN [cfg EXCEPT !.salt = value]
    ELSE [cfg EXCEPT !.key_check_value = value]

Present(v) == v.type # "NoneType"

\* The setup flow is entered on a vault that has no configuration
StartSetup ==
    /\ setup.pc = "none"
    /\ ~Present(config.salt) /\ ~Present(config.key_check_value)
    /\ setup' = [setup EXCEPT !.pc = "set_new_master_password"]
    /\ UNCHANGED <<entries, now, ret, inv, kcvio, config>>

\* def set_new_master_password(): one pass of its loop
SetNewMasterPassword ==
    /\ setup.pc = "set_new_master_password"
    /\ \E p1 \in Passwords, p2 \in Passwords :
           setup' = IF Len(p1) < MinPasswordLen
                    THEN [setup EXCEPT !.told = "too_short"]
                    ELSE IF p1 = p2
                    THEN [setup EXCEPT !.pc = "insert_salt",
                                       !.master_password = p1,
                                       !.told = "set"]
                    ELSE [setup EXCEPT !.told = "mismatch"]
    /\ UNCHANGED <<entries, now, ret, inv, kcvio, config>>

\* salt = generate_salt(); db.insert_config("salt", salt)
InsertSalt ==
    /\ setup.pc = "insert_salt"
    /\ \E salt \in Salts, st \in {"ok", "sqlite_error"} :
           IF st = "ok"
           THEN /\ config' = insert_config(config, "salt", Bytes(salt))
                /\ setup' = [setup EXCEPT !.pc = "insert_kcv", !.salt = salt]
           ELSE /\ config' = config
                /\ setup' = [setup EXCEPT !.pc = "failed"]
    /\ UNCHANGED <<entries, now, ret, inv, kcvio>>

\* key = derive_key(...); kcv = encode_kcv(key);
\* db.insert_config("key_check_value", kcv)
InsertKcv ==
    /\ setup.pc = "insert_kcv"
    /\ \E iv \in IVs, st \in {"ok", "sqlite_error"} :
           IF st = "ok"
           THEN /\ config' = insert_config(
                                config, "key_check_value",
                                encode_kcv(derive_key(setup.salt,
                                                      setup.master_password), iv))
                /\ setup' = [setup EXCEPT !.pc = "done"]
           ELSE /\ config' = config
                /\ setup' = [setup EXCEPT !.pc = "failed"]
    /\ UNCHANGED <<entries, now, ret, inv, kcvio>>

\* The process is stopped (KeyboardInterrupt at a prompt or in the
\* 1,200,000 iterations of derive_key, a kill, a power loss)
Interrupt ==
    /\ setup.pc \in {"set_new_master_password", "insert_salt", "insert_kcv"}
    /\ setup' = [setup EXCEPT !.pc = "interrupted"]
    /\ UNCHANGED <<entries, now, ret, inv, kcvio, config>>

\* The process ends: its locals are gone, what was stored stays
EndProcess ==
    /\ setup.pc \in {"done", "failed", "interrupted"}
    /\ setup' = NoSetup
    /\ UNCHANGED <<entries, now, ret, inv, kcvio, config>>

NextSetup ==
    \/ StartSetup
    \/ SetNewMasterPassword
    \/ InsertSalt
    \/ InsertKcv
    \/ Interrupt
    \/ EndProcess

SpecSetup == Init /\ [][NextSetup]_vars

---------------------------------------------------------------------------
(* Claims about the store, checked under SpecStore *)

\* The rows a search or list handed back: none when it left through sys.exit
RowsOf(r) == IF r.out.kind = "return" THEN r.out.value ELSE {}

\* C5: after any sequence of adds at most one row exists per service_name,
\* and an add of a service_name that already has a row is rejected (it
\* raises) and leaves the table, and so what a following view_entry returns,
\* exactly as it was.
C5_UniqueAndDuplicateRejected ==
    /\ [](\A e1, e2 \in entries :
              e1.service_name = e2.service_name => e1 = e2)
    /\ [][(ret'.fn = "add_entry" /\ ret'.existed)
             => /\ ret'.out.kind = "raise"
                /\ entries' = entries
                /\ view_entry(entries', "ok", ret'.arg).out
                     = view_entry(entries, "ok", ret'.arg).out]_vars

\* C5 witness: an add of an existing service name was refused by the UNIQUE
\* constraint, the store itself being in order
C5_Witness ==
    /\ ret.fn = "add_entry"
    /\ ret.existed
    /\ ret.storage = "ok"
    /\ ret.out = Raise("Exception")
    /\ Cardinality(entries) = 2

\* The fields of a row that update_entry must leave alone
SameButPassword(e, e2) ==
    /\ e2.service_name = e.service_name
    /\ e2.username = e.username
    /\ e2.url = e.url
    /\ e2.note = e.note
    /\ e2.created_at = e.created_at
    /\ e2.iv = e.iv

\* C6: update_entry on an existing service name changes only that row's
\* password and updated_at; its other fields, and every other row, are the
\* same before and after.
C6_UpdateFrame ==
    [][(ret'.fn = "update_entry" /\ ret'.existed)
          => /\ Cardinality(entries') = Cardinality(entries)
             /\ \A e \in entries :
                    IF e.service_name = ret'.arg
                    THEN \E e2 \in entries' : SameButPassword(e, e2)
                    ELSE e \in entries']_vars

\* C6 witness: a row was updated at a later time than it was created, beside
\* another row
C6_Witness ==
    /\ ret.fn = "update_entry"
    /\ ret.existed
    /\ ret.storage = "ok"
    /\ Cardinality(entries) = 2
    /\ \E e \in entries :
           /\ e.service_name = ret.arg
           /\ e.password = Str("pw3")
           /\ e.updated_at > e.created_at

\* C7: update_entry and delete_entry on a service name that has no row fail
\* (raise), and the table is unchanged.
C7_NotFoundReported ==
    (ret.fn \in {"update_entry", "delete_entry"} /\ ~ret.existed)
        => ret.out.kind = "raise"

\* t occurs in s as a run of consecutive characters, letters compared as the
\* LIKE of the column compares them
Contains(s, t) ==
    \E i \in 0..(Len(s) - Len(t)) :
        \A j \in 1..Len(t) : Lower(s[i + j]) = Lower(t[j])

\* C8: search(term) returns exactly the rows whose service_name contains the
\* term as a literal substring, for every term, those with % and _ included.
C8_SearchIsSubstring ==
    (ret.fn = "search" /\ ret.storage = "ok")
        => RowsOf(ret) = { Summary(e) :
                               e \in { x \in entries :
                                         Contains(x.service_name, ret.arg) } }

---------------------------------------------------------------------------
(* Claims about the commands, checked under Spec *)

\* A value is ciphertext when it is a token Fernet made
IsCiphertext(v) == v.type = "token"

\* C1: the username and password of every row written through the add and
\* update commands are ciphertext made under the session key, never the text
\* the user typed.
C1_StoredFieldsAreCiphertext ==
    \A e \in entries : IsCiphertext(e.username) /\ IsCiphertext(e.password)

\* C2: no entry command reads or changes the table unless the vault is
\* unlocked, that is unless the invocation derived a key and verified it.
C2_EntryOperationsNeedUnlock ==
    (inv.calls # {}) => Present(inv.key)

\* C10: when the backing store cannot be initialised, startup aborts and the
\* requested command is never executed.
C10_StorageFailureAbortsStartup ==
    (inv.cmd # "none" /\ inv.storage # "ok")
        => (inv.startup = "aborted" /\ ~inv.executed)

---------------------------------------------------------------------------
(* Claims about the key check value, checked under SpecKcv *)

\* C3: with kcv = encode_kcv(derive_key(p, s)), decode_kcv returns true for
\* the key of p and false for the key of any other password.
C3_KcvAcceptsExactlyThePassword ==
    (kcvio.stage = "checked" /\ ~kcvio.tampered)
        => kcvio.out = Return(Bool(kcvio.candidate = kcvio.password))

\* C4: decode_kcv never raises: a wrong key and a corrupted key check value
\* both give the value false.
C4_KcvFailureIsFalse ==
    (kcvio.stage = "checked"
       /\ (kcvio.tampered \/ kcvio.candidate # kcvio.password))
        => kcvio.out = Return(Bool(FALSE))

---------------------------------------------------------------------------
(* Claims about the setup flow, checked under SpecSetup *)

\* C9: in every state, an interrupted or failed setup included, the stored
\* configuration holds both the salt and the key check value or neither.
C9_ConfigBothOrNeither ==
    Present(config.salt) <=> Present(config.key_check_value)

====
